---------------------------- MODULE Spec2Model ----------------------------
(***************************************************************************)
(* A model of emeritus-mcp: the tool-invocation surface (server.py, the    *)
(* Tool Registry and Dispatcher, over EmeritusClient) and the synchronous  *)
(* request/response surface (api/v5 routes over the services and the       *)
(* Credential Manager EmeritusAuth).                                       *)
(*                                                                         *)
(* Python strings that the code inspects (tool names) are sequences of     *)
(* one-character strings, so that startswith / endswith are computed.      *)
(* Messages are sequences of parts; f-string interpolation is \o.          *)
(* Specification Spec is the tool-invocation surface, SpecAuth the         *)
(* Credential Manager under concurrent callers, SpecSync the synchronous   *)
(* surface with the shared token cache.  SpecBoth and SpecSigned run the   *)
(* surfaces one call at a time, SpecLive runs them concurrently under the  *)
(* fairness that the timeouts of the HTTP clients give.                    *)
(***************************************************************************)
EXTENDS Integers, Sequences, FiniteSets, TLC

VARIABLES
    ipc,        \* tool surface: position of each invocation (idle/awaiting/done)
    icall,      \* tool surface: the CallToolRequest params (name, arguments)
    iroute,     \* tool surface: category handler and tool method reached
    ireq,       \* tool surface: the remote request in flight
    igot,       \* tool surface: status, code and msg of the partner's answer
    ibody,      \* tool surface: what the try body of handle_call_tool ended in
    ioutcomes,  \* tool surface: what handle_call_tool returned or raised
    listed,     \* tool surface: what each list_tools call returned, in call order
    api_key,    \* settings.MCP_API_KEY
    token,      \* EmeritusAuth._token
    token_expire_time, \* EmeritusAuth._token_expire_time
    now,        \* wall clock, time.time()
    last,       \* the get_token call of a caller that completed most recently
    cpc,        \* credential manager: position of each get_token call
    cgot,       \* credential manager: status, code and msg of the token endpoint's answer
    cres,       \* credential manager: what get_token returned or raised
    verify,     \* credential manager: the verify_token call (position, header, result)
    rpc,        \* sync surface: position of each request
    rreq,       \* sync surface: the request (route, credential, validity)
    rsent,      \* sync surface: the remote operation request in flight
    rgot,       \* sync surface: status, code and msg of the partner's answer
    rexc,       \* sync surface: the exception the route's try body raised
    rresp       \* sync surface: the HTTP response sent to the caller

toolVars == <<ipc, icall, iroute, ireq, igot, ibody, ioutcomes, listed>>
cacheVars == <<token, token_expire_time, last>>
authVars == <<cpc, cgot, cres, verify>>
syncVars == <<rpc, rreq, rsent, rgot, rexc, rresp>>
vars == <<ipc, icall, iroute, ireq, igot, ibody, ioutcomes, listed,
          api_key, token, token_expire_time, now, last,
          cpc, cgot, cres, verify, rpc, rreq, rsent, rgot, rexc, rresp>>

---------------------------------------------------------------------------
(* Bounds of the model.                                                    *)

\* concurrent tool invocations
MaxInvocations == 1
\* concurrent get_token calls
MaxCallers == 2
\* concurrent requests on the synchronous surface
MaxRequests == 1
\* the clock runs from 0 to MaxTime
MaxTime == 2
\* list_tools calls recorded
MaxLists == 2

Invocations == 1..MaxInvocations
Callers == 1..MaxCallers
Requests == 1..MaxRequests

\* Python's None
None == "None"

---------------------------------------------------------------------------
(* Python string operations.                                               *)

\* str.startswith
StartsWith(s, prefix) ==
    /\ Len(s) >= Len(prefix)
    /\ SubSeq(s, 1, Len(prefix)) = prefix

\* str.endswith
EndsWith(s, suffix) ==
    /\ Len(s) >= Len(suffix)
    /\ SubSeq(s, Len(s) - Len(suffix) + 1, Len(s)) = suffix

\* `sub in s` for message sequences
Contains(s, sub) ==
    \E k \in 0..(Len(s) - Len(sub)) : SubSeq(s, k + 1, k + Len(sub)) = sub

\* truthiness of a str-or-None value (`if x:`)
Truthy(v) == v \notin {None, ""}

\* the expiry marker is a number; NoExpire stands for Python's None there
NoExpire == -1

\* truthiness of a number-or-None value
TruthyNum(v) == v \notin {NoExpire, 0}

---------------------------------------------------------------------------
(* The tool names of the catalog (server.py handle_list_tools), and        *)
(* names that are not in it.                                               *)

T_create_user == <<"c","r","e","a","t","e","_","u","s","e","r">>
T_fetch_user_profile == <<"f","e","t","c","h","_","u","s","e","r","_","p","r","o","f","i","l","e">>
T_update_user_owner == <<"u","p","d","a","t","e","_","u","s","e","r","_","o","w","n","e","r">>
T_update_user_pool == <<"u","p","d","a","t","e","_","u","s","e","r","_","p","o","o","l">>
T_update_user_email == <<"u","p","d","a","t","e","_","u","s","e","r","_","e","m","a","i","l">>
T_fetch_user_contact == <<"f","e","t","c","h","_","u","s","e","r","_","c","o","n","t","a","c","t">>
T_create_tag_group == <<"c","r","e","a","t","e","_","t","a","g","_","g","r","o","u","p">>
T_list_tag_groups == <<"l","i","s","t","_","t","a","g","_","g","r","o","u","p","s">>
T_update_tag_group == <<"u","p","d","a","t","e","_","t","a","g","_","g","r","o","u","p">>
T_deactivate_tag_group == <<"d","e","a","c","t","i","v","a","t","e","_","t","a","g","_","g","r","o","u","p">>
T_activate_tag_group == <<"a","c","t","i","v","a","t","e","_","t","a","g","_","g","r","o","u","p">>
T_assign_user_tag == <<"a","s","s","i","g","n","_","u","s","e","r","_","t","a","g">>
T_list_user_tags == <<"l","i","s","t","_","u","s","e","r","_","t","a","g","s">>
T_fetch_order == <<"f","e","t","c","h","_","o","r","d","e","r">>
T_list_orders == <<"l","i","s","t","_","o","r","d","e","r","s">>
T_list_order_financials == <<"l","i","s","t","_","o","r","d","e","r","_","f","i","n","a","n","c","i","a","l","s">>
T_import_leads == <<"i","m","p","o","r","t","_","l","e","a","d","s">>

\* names outside the catalog
T_unknown_tool_xyz == <<"u","n","k","n","o","w","n","_","t","o","o","l","_","x","y","z">>
T_fetch_user_xyz == <<"f","e","t","c","h","_","u","s","e","r","_","x","y","z">>
T_create_user_tag == <<"c","r","e","a","t","e","_","u","s","e","r","_","t","a","g">>
T_remove_user_tag == <<"r","e","m","o","v","e","_","u","s","e","r","_","t","a","g">>
T_list_order_items == <<"l","i","s","t","_","o","r","d","e","r","_","i","t","e","m","s">>
T_list_order_tag_group == <<"l","i","s","t","_","o","r","d","e","r","_","t","a","g","_","g","r","o","u","p">>

\* the literals of the routing conditions
P_fetch_user == <<"f","e","t","c","h","_","u","s","e","r">>
P_update_user == <<"u","p","d","a","t","e","_","u","s","e","r">>
P_tag_group == <<"_","t","a","g","_","g","r","o","u","p">>
P_user_tag == <<"_","u","s","e","r","_","t","a","g">>
P_list_order == <<"l","i","s","t","_","o","r","d","e","r">>

\* a list_tools that leaves out the tools an invocation in flight is using
handle_list_tools_busy ==
    IF \E i \in Invocations : ipc[i] = "awaiting"
    THEN << T_create_user, T_fetch_user_profile >>
    ELSE << T_create_user, T_fetch_user_profile, T_update_user_owner, T_update_user_pool,
            T_update_user_email, T_fetch_user_contact,
            T_create_tag_group, T_list_tag_groups, T_update_tag_group,
            T_deactivate_tag_group, T_activate_tag_group, T_assign_user_tag,
            T_list_user_tags, T_fetch_order, T_list_orders, T_list_order_financials,
            T_import_leads >>

\* the names of the Tool descriptors, in the order handle_list_tools returns them
handle_list_tools ==
    << T_create_user, T_fetch_user_profile, T_update_user_owner, T_update_user_pool,
       T_update_user_email, T_fetch_user_contact,
       T_create_tag_group, T_list_tag_groups, T_update_tag_group, T_deactivate_tag_group,
       T_activate_tag_group, T_assign_user_tag, T_list_user_tags,
       T_fetch_order, T_list_orders, T_list_order_financials,
       T_import_leads >>

CatalogNames == { handle_list_tools[k] : k \in 1..Len(handle_list_tools) }

OtherNames ==
    { T_unknown_tool_xyz, T_fetch_user_xyz, T_create_user_tag, T_remove_user_tag,
      T_list_order_items, T_list_order_tag_group }

ToolNames == CatalogNames \cup OtherNames


---------------------------------------------------------------------------
(* Exceptions, requests and responses of the tool-invocation surface.      *)

NoExc == [type |-> "none", code |-> "none", msg |-> <<>>]

\* McpError(ErrorCode.X, message)
McpError(code, message) == [type |-> "McpError", code |-> code, msg |-> message]

\* any other exception class, all of them subclasses of Exception
PyError(type, message) == [type |-> type, code |-> "none", msg |-> message]

\* str(e)
Str(e) == e.msg

\* an argument map with no entries
EmptyArgs == [k \in {} |-> ""]

\* the value bound to parameter k, its default None when the caller gave none
Param(arguments, k) == IF k \in DOMAIN arguments THEN arguments[k] ELSE None

NoRequest == [method |-> "none", endpoint |-> "none", payload |-> EmptyArgs]

\* the tools each category handler knows
UserToolNames ==
    { T_create_user, T_fetch_user_profile, T_update_user_owner, T_update_user_pool,
      T_update_user_email, T_fetch_user_contact }

TagToolNames ==
    { T_create_tag_group, T_list_tag_groups, T_update_tag_group, T_deactivate_tag_group,
      T_activate_tag_group, T_assign_user_tag, T_list_user_tags }

OrderToolNames == { T_fetch_order, T_list_orders, T_list_order_financials }

LeadsToolNames == { T_import_leads }

\* parameters without a default of each tool method
Required(m) ==
    CASE m = T_create_user -> {}
      [] m = T_fetch_user_profile -> {"user_id"}
      [] m = T_update_user_owner -> {"user_id", "owner_id"}
      [] m = T_update_user_pool -> {"user_id", "pool_id"}
      [] m = T_update_user_email -> {"user_id", "email"}
      [] m = T_fetch_user_contact -> {"user_id"}
      [] m = T_create_tag_group -> {"name"}
      [] m = T_list_tag_groups -> {}
      [] m = T_update_tag_group -> {"group_id"}
      [] m = T_deactivate_tag_group -> {"group_id"}
      [] m = T_activate_tag_group -> {"group_id"}
      [] m = T_assign_user_tag -> {"user_id", "tag_id"}
      [] m = T_list_user_tags -> {"user_id"}
      [] m = T_fetch_order -> {"order_id"}
      [] m = T_list_orders -> {}
      [] m = T_list_order_financials -> {}
      [] m = T_import_leads -> {"leads_data"}

\* parameters with default None of each tool method
Optional(m) ==
    CASE m = T_create_user -> {"mobile", "email", "source"}
      [] m = T_create_tag_group -> {"description"}
      [] m = T_list_tag_groups -> {"limit", "offset"}
      [] m = T_update_tag_group -> {"name", "description"}
      [] m = T_list_orders -> {"user_id", "status", "limit", "offset"}
      [] m = T_list_order_financials -> {"order_id", "limit", "offset"}
      [] m = T_import_leads -> {"source"}
      [] OTHER -> {}

\* the HTTP method of each EmeritusClient operation
HttpMethod(m) ==
    IF m \in { T_fetch_user_profile, T_fetch_user_contact, T_list_tag_groups,
               T_list_user_tags, T_fetch_order, T_list_orders, T_list_order_financials }
    THEN "GET" ELSE "POST"

\* the endpoint of each EmeritusClient operation
Endpoint(m) ==
    CASE m = T_create_user -> "/api/v5/entity/user/create"
      [] m = T_fetch_user_profile -> "/api/v5/entity/profile/fetch"
      [] m = T_update_user_owner -> "/api/v5/entity/user/owner/update"
      [] m = T_update_user_pool -> "/api/v5/entity/user/pool/update"
      [] m = T_update_user_email -> "/api/v5/entity/user/email/update"
      [] m = T_fetch_user_contact -> "/api/v5/entity/user/contact/fetch"
      [] m = T_create_tag_group -> "/api/v5/entity/tags/group/create"
      [] m = T_list_tag_groups -> "/api/v5/entity/tags/group/list"
      [] m = T_update_tag_group -> "/api/v5/entity/tags/group/update"
      [] m = T_deactivate_tag_group -> "/api/v5/entity/tags/group/deactivate"
      [] m = T_activate_tag_group -> "/api/v5/entity/tags/group/activate"
      [] m = T_assign_user_tag -> "/api/v5/entity/user/tags/assign"
      [] m = T_list_user_tags -> "/api/v5/entity/user/tags/list"
      [] m = T_fetch_order -> "/api/v5/entity/order/fetch"
      [] m = T_list_orders -> "/api/v5/entity/order/list"
      [] m = T_list_order_financials -> "/api/v5/entity/order/financial/list"
      [] m = T_import_leads -> "/api/v5/entity/leads/import"

\* EmeritusClient.<operation>: the request handed to make_request; a parameter
\* with a default is sent only when it is truthy
ClientRequest(m, arguments) ==
    [ method |-> HttpMethod(m),
      endpoint |-> Endpoint(m),
      payload |-> [ k \in { j \in DOMAIN arguments :
                              j \in Required(m) \/ Truthy(arguments[j]) }
                    |-> arguments[k] ] ]

\* what the part of a call that runs before the first await ends in
NoMethod == <<>>

\* method is the tool method the category handler resolved the name to, and
\* invoked tells whether its body ran
Raised(category, method, invoked, e) ==
    [kind |-> "raise", category |-> category, method |-> method, invoked |-> invoked,
     exc |-> e, request |-> NoRequest]

Awaiting(category, method, request) ==
    [kind |-> "await", category |-> category, method |-> method, invoked |-> TRUE,
     exc |-> NoExc, request |-> request]

\* the tool methods with create_user not testing mobile and email
ToolMethod_unchecked(category, m, arguments) ==
    IF DOMAIN arguments \ (Required(m) \cup Optional(m)) # {}
    THEN Raised(category, m, FALSE,
                PyError("TypeError", m \o <<"() got an unexpected keyword argument">>))
    ELSE IF Required(m) \ DOMAIN arguments # {}
    THEN Raised(category, m, FALSE,
                PyError("TypeError", m \o <<"() missing required positional argument">>))
    ELSE Awaiting(category, m, ClientRequest(m, arguments))

\* UserTools / TagTools / OrderTools / LeadsTools .<m>(**arguments): Python binds
\* the keywords, then the method body runs down to the request
ToolMethod(category, m, arguments) ==
    IF DOMAIN arguments \ (Required(m) \cup Optional(m)) # {}
    THEN Raised(category, m, FALSE,
                PyError("TypeError", m \o <<"() got an unexpected keyword argument">>))
    ELSE IF Required(m) \ DOMAIN arguments # {}
    THEN Raised(category, m, FALSE,
                PyError("TypeError", m \o <<"() missing required positional argument">>))
    ELSE IF /\ m = T_create_user
            /\ ~Truthy(Param(arguments, "mobile"))
            /\ ~Truthy(Param(arguments, "email"))
    THEN Raised(category, m, TRUE,
                PyError("ValueError", <<"Either mobile or email must be provided">>))
    ELSE Awaiting(category, m, ClientRequest(m, arguments))

\* _handle_user_tool that takes every fetch_user... name for fetch_user_profile
_handle_user_tool_prefix(tool_name, arguments) ==
    IF tool_name \in UserToolNames
    THEN ToolMethod("user", tool_name, arguments)
    ELSE IF StartsWith(tool_name, P_fetch_user)
    THEN ToolMethod("user", T_fetch_user_profile, arguments)
    ELSE Raised("user", NoMethod, FALSE,
                McpError("METHOD_NOT_FOUND", <<"Unknown user tool: ">> \o tool_name))

\* _handle_user_tool with the fetch_user_profile branch calling fetch_user_contact
_handle_user_tool_swapped(tool_name, arguments) ==
    IF tool_name = T_fetch_user_profile
    THEN ToolMethod("user", T_fetch_user_contact, arguments)
    ELSE IF tool_name \in UserToolNames
    THEN ToolMethod("user", tool_name, arguments)
    ELSE Raised("user", NoMethod, FALSE,
                McpError("METHOD_NOT_FOUND", <<"Unknown user tool: ">> \o tool_name))

_handle_user_tool(tool_name, arguments) ==
    IF tool_name \in UserToolNames
    THEN ToolMethod("user", tool_name, arguments)
    ELSE Raised("user", NoMethod, FALSE,
                McpError("METHOD_NOT_FOUND", <<"Unknown user tool: ">> \o tool_name))

_handle_tag_tool(tool_name, arguments) ==
    IF tool_name \in TagToolNames
    THEN ToolMethod("tag", tool_name, arguments)
    ELSE Raised("tag", NoMethod, FALSE,
                McpError("METHOD_NOT_FOUND", <<"Unknown tag tool: ">> \o tool_name))

_handle_order_tool(tool_name, arguments) ==
    IF tool_name \in OrderToolNames
    THEN ToolMethod("order", tool_name, arguments)
    ELSE Raised("order", NoMethod, FALSE,
                McpError("METHOD_NOT_FOUND", <<"Unknown order tool: ">> \o tool_name))

_handle_leads_tool(tool_name, arguments) ==
    IF tool_name \in LeadsToolNames
    THEN ToolMethod("leads", tool_name, arguments)
    ELSE Raised("leads", NoMethod, FALSE,
                McpError("METHOD_NOT_FOUND", <<"Unknown leads tool: ">> \o tool_name))

\* the chain with the tag patterns tested before the user patterns
Route_tagfirst(tool_name, arguments) ==
    IF \/ EndsWith(tool_name, P_tag_group)
       \/ EndsWith(tool_name, P_user_tag)
       \/ tool_name = T_list_user_tags
    THEN _handle_tag_tool(tool_name, arguments)
    ELSE IF \/ StartsWith(tool_name, T_create_user)
            \/ StartsWith(tool_name, P_fetch_user)
            \/ StartsWith(tool_name, P_update_user)
    THEN _handle_user_tool(tool_name, arguments)
    ELSE IF \/ StartsWith(tool_name, T_fetch_order)
            \/ StartsWith(tool_name, P_list_order)
    THEN _handle_order_tool(tool_name, arguments)
    ELSE IF tool_name = T_import_leads
    THEN _handle_leads_tool(tool_name, arguments)
    ELSE Raised("none", NoMethod, FALSE,
                McpError("METHOD_NOT_FOUND", <<"Unknown tool: ">> \o tool_name))

\* the if / elif chain of handle_call_tool that picks the category handler
Route(tool_name, arguments) ==
    IF \/ StartsWith(tool_name, T_create_user)
       \/ StartsWith(tool_name, P_fetch_user)
       \/ StartsWith(tool_name, P_update_user)
    THEN _handle_user_tool(tool_name, arguments)
    ELSE IF \/ EndsWith(tool_name, P_tag_group)
            \/ EndsWith(tool_name, P_user_tag)
            \/ tool_name = T_list_user_tags
    THEN _handle_tag_tool(tool_name, arguments)
    ELSE IF \/ StartsWith(tool_name, T_fetch_order)
            \/ StartsWith(tool_name, P_list_order)
    THEN _handle_order_tool(tool_name, arguments)
    ELSE IF tool_name = T_import_leads
    THEN _handle_leads_tool(tool_name, arguments)
    ELSE Raised("none", NoMethod, FALSE,
                McpError("METHOD_NOT_FOUND", <<"Unknown tool: ">> \o tool_name))

---------------------------------------------------------------------------
(* The partner's answers to a remote operation request.                    *)

\* the status line httpx puts in an HTTPStatusError message
StatusLine(status) ==
    CASE status = 400 -> "400 Bad Request"
      [] status = 500 -> "500 Internal Server Error"
      [] OTHER -> "200 OK"

\* response bodies: a success envelope and a failure envelope
RemoteBodies ==
    { [code |-> 0, msg |-> "ok", data |-> "d1"],
      [code |-> 400, msg |-> "bad corp id", data |-> None] }

\* status 0 stands for a transport failure: no response was received
RemoteResponses == [status : {0, 200, 400, 500}, body : RemoteBodies]

NoResult == [code |-> 0, msg |-> "", data |-> None]

Returned(result) == [kind |-> "return", result |-> result, exc |-> NoExc]

Failed(e) == [kind |-> "raise", result |-> NoResult, exc |-> e]

NoBody == [kind |-> "none", result |-> NoResult, exc |-> NoExc]

\* make_request without raise_for_status: the body of an error answer is returned
make_request_noraise(response) ==
    IF response.status = 0
    THEN Failed(PyError("ConnectError", <<"All connection attempts failed">>))
    ELSE Returned(response.body)

\* EmeritusClient.make_request from the await on: the transport may raise,
\* raise_for_status raises on 4xx / 5xx, otherwise the decoded body is returned
make_request(response) ==
    IF response.status = 0
    THEN Failed(PyError("ConnectError", <<"All connection attempts failed">>))
    ELSE IF response.status >= 400
    THEN Failed(PyError("HTTPStatusError",
                        <<"Client error '", StatusLine(response.status), "' for url">>))
    ELSE Returned(response.body)

\* the identity and the secret EmeritusClient is constructed with
user_id == "app1"

api_secret == "s3cret"

\* hashlib.sha256(s.encode()).hexdigest(): a one-way function of its input
Sha256(s) == <<"sha256">> \o s

NoSigned == [x_user_id |-> "", x_timestamp |-> -1, x_signature |-> <<>>,
             content_type |-> ""]

\* _generate_auth_headers computed once, when the client is constructed
_generate_auth_headers_once(time) ==
    [ x_user_id |-> user_id,
      x_timestamp |-> 0,
      x_signature |-> Sha256(<<user_id, 0, api_secret>>),
      content_type |-> "application/json" ]

\* EmeritusClient._generate_auth_headers at clock value `time`
_generate_auth_headers(time) ==
    [ x_user_id |-> user_id,
      x_timestamp |-> time,
      x_signature |-> Sha256(<<user_id, time, api_secret>>),
      content_type |-> "application/json" ]

NoSend == [method |-> "none", endpoint |-> "none", payload |-> EmptyArgs,
           headers |-> NoSigned]

\* make_request up to its await: the headers are generated and the request
\* is handed to the HTTP client
Send(request, time) ==
    [method |-> request.method, endpoint |-> request.endpoint,
     payload |-> request.payload, headers |-> _generate_auth_headers(time)]

\* json.dumps(result, indent=2)
JsonDumps(result) == <<"json", result>>

---------------------------------------------------------------------------
(* handle_call_tool.                                                       *)

\* handle_call_tool with an except clause that logs the error and raises nothing
handle_call_tool_swallow(body) ==
    IF body.kind = "raise"
    THEN << >>
    ELSE << [kind |-> "return",
             exc |-> NoExc,
             content |-> << [type |-> "text", text |-> JsonDumps(body.result)] >>] >>

\* handle_call_tool with an except clause that drops str(e) from the message
handle_call_tool_nomsg(body) ==
    IF body.kind = "raise"
    THEN << [kind |-> "raise",
             exc |-> McpError("INTERNAL_ERROR", <<"Tool execution failed">>),
             content |-> <<>>] >>
    ELSE << [kind |-> "return",
             exc |-> NoExc,
             content |-> << [type |-> "text", text |-> JsonDumps(body.result)] >>] >>

\* handle_call_tool that checks the result before it is serialised and
\* reports a result with a non-zero code as an error
handle_call_tool_checked(body) ==
    IF body.kind = "raise" \/ body.result.code # 0
    THEN << [kind |-> "raise",
             exc |-> McpError("INTERNAL_ERROR",
                              <<"Tool execution failed: ">> \o Str(body.exc)),
             content |-> <<>>] >>
    ELSE << [kind |-> "return",
             exc |-> NoExc,
             content |-> << [type |-> "text", text |-> JsonDumps(body.result)] >>] >>

\* the try body ended in `body` (a returned result or a raised exception);
\* the outcomes the invocation ends in: the ToolResult of the return
\* statement, or the McpError the except clause raises
handle_call_tool(body) ==
    IF body.kind = "raise"
    THEN << [kind |-> "raise",
             exc |-> McpError("INTERNAL_ERROR",
                              <<"Tool execution failed: ">> \o Str(body.exc)),
             content |-> <<>>] >>
    ELSE << [kind |-> "return",
             exc |-> NoExc,
             content |-> << [type |-> "text", text |-> JsonDumps(body.result)] >>] >>

\* argument maps that satisfy each catalog tool's signature
GoodArgs(m) ==
    CASE m = T_create_user -> ("mobile" :> "13800000000")
      [] m = T_fetch_user_profile -> ("user_id" :> "u1")
      [] m = T_update_user_owner -> ("user_id" :> "u1") @@ ("owner_id" :> "o1")
      [] m = T_update_user_pool -> ("user_id" :> "u1") @@ ("pool_id" :> "p1")
      [] m = T_update_user_email -> ("user_id" :> "u1") @@ ("email" :> "a@b.c")
      [] m = T_fetch_user_contact -> ("user_id" :> "u1")
      [] m = T_create_tag_group -> ("name" :> "g") @@ ("description" :> "")
      [] m = T_list_tag_groups -> ("limit" :> "10")
      [] m = T_update_tag_group -> ("group_id" :> "g1") @@ ("name" :> "g")
      [] m = T_deactivate_tag_group -> ("group_id" :> "g1")
      [] m = T_activate_tag_group -> ("group_id" :> "g1")
      [] m = T_assign_user_tag -> ("user_id" :> "u1") @@ ("tag_id" :> "t1")
      [] m = T_list_user_tags -> ("user_id" :> "u1")
      [] m = T_fetch_order -> ("order_id" :> "o1")
      [] m = T_list_orders -> ("status" :> "paid")
      [] m = T_list_order_financials -> ("order_id" :> "o1")
      [] m = T_import_leads -> ("leads_data" :> "leads")

\* the argument maps a caller sends with a name
ArgsFor(name) ==
    {EmptyArgs, ("bogus" :> "x")}
    \cup (IF name \in CatalogNames THEN {GoodArgs(name)} ELSE {})
    \cup (IF name = T_create_user
          THEN {("email" :> "a@b.c"), ("mobile" :> "") @@ ("source" :> "web")}
          ELSE {})
    \cup (IF name = T_fetch_user_profile THEN {("user_id" :> "u2")} ELSE {})

NoCall == [name |-> <<>>, arguments |-> EmptyArgs]

\* no answer received yet
NoAnswer == [status |-> -1, code |-> 0, msg |-> ""]

NoRoute == [category |-> "none", method |-> NoMethod, invoked |-> FALSE]

\* a client calls a tool: handle_call_tool runs down to its first await, the
\* remote request of make_request, or to the exception that ends it before
CallTool(i, name, arguments) ==
    /\ ipc[i] = "idle"
    /\ LET r == Route(name, arguments) IN
         /\ icall' = [icall EXCEPT ![i] = [name |-> name, arguments |-> arguments]]
         /\ iroute' = [iroute EXCEPT ![i] =
                          [category |-> r.category, method |-> r.method,
                           invoked |-> r.invoked]]
         /\ ireq' = [ireq EXCEPT ![i] =
                        IF r.kind = "await" THEN Send(r.request, now) ELSE NoSend]
         /\ IF r.kind = "await"
            THEN /\ ipc' = [ipc EXCEPT ![i] = "awaiting"]
                 /\ UNCHANGED <<ibody, ioutcomes>>
            ELSE /\ ipc' = [ipc EXCEPT ![i] = "done"]
                 /\ ibody' = [ibody EXCEPT ![i] = Failed(r.exc)]
                 /\ ioutcomes' = [ioutcomes EXCEPT ![i] =
                                     @ \o handle_call_tool(Failed(r.exc))]
    /\ UNCHANGED <<igot, listed, api_key, now, cacheVars, authVars, syncVars>>

\* the partner answers (or the transport fails): make_request resumes and
\* handle_call_tool ends
RemoteAnswer(i, response) ==
    /\ ipc[i] = "awaiting"
    /\ ipc' = [ipc EXCEPT ![i] = "done"]
    /\ igot' = [igot EXCEPT ![i] =
                    [status |-> response.status, code |-> response.body.code,
                     msg |-> response.body.msg]]
    /\ ibody' = [ibody EXCEPT ![i] = make_request(response)]
    /\ ioutcomes' = [ioutcomes EXCEPT ![i] = @ \o handle_call_tool(make_request(response))]
    /\ UNCHANGED <<icall, iroute, ireq, listed>>
    /\ UNCHANGED <<api_key, now, cacheVars, authVars, syncVars>>

\* the invocation is over and its slot serves the next one
NextInvocation(i) ==
    /\ ipc[i] = "done"
    /\ ipc' = [ipc EXCEPT ![i] = "idle"]
    /\ icall' = [icall EXCEPT ![i] = NoCall]
    /\ iroute' = [iroute EXCEPT ![i] = NoRoute]
    /\ ireq' = [ireq EXCEPT ![i] = NoSend]
    /\ igot' = [igot EXCEPT ![i] = NoAnswer]
    /\ ibody' = [ibody EXCEPT ![i] = NoBody]
    /\ ioutcomes' = [ioutcomes EXCEPT ![i] = <<>>]
    /\ UNCHANGED <<listed, api_key, now, cacheVars, authVars, syncVars>>

\* a client calls list_tools: handle_list_tools returns its literal list
ListTools ==
    /\ Len(listed) < MaxLists
    /\ listed' = Append(listed, handle_list_tools)
    /\ UNCHANGED <<ipc, icall, iroute, ireq, igot, ibody, ioutcomes>>
    /\ UNCHANGED <<api_key, now, cacheVars, authVars, syncVars>>

InitTool ==
    /\ ipc = [i \in Invocations |-> "idle"]
    /\ icall = [i \in Invocations |-> NoCall]
    /\ iroute = [i \in Invocations |-> NoRoute]
    /\ ireq = [i \in Invocations |-> NoSend]
    /\ igot = [i \in Invocations |-> NoAnswer]
    /\ ibody = [i \in Invocations |-> NoBody]
    /\ ioutcomes = [i \in Invocations |-> <<>>]
    /\ listed = <<>>

---------------------------------------------------------------------------
(* The Credential Manager, EmeritusAuth.                                   *)

\* fastapi.HTTPException(status_code, detail)
HTTPException(status_code, detail) ==
    [type |-> "HTTPException", code |-> status_code, msg |-> detail]

\* e.detail
Detail(e) == e.msg

\* str(e) of any exception; an HTTPException prints its status before the detail
StrOf(e) == IF e.type = "HTTPException" THEN <<e.code, ": ">> \o e.msg ELSE e.msg

\* the token values the partner issues; the last one is the empty string
Tokens == {"t1", "t2", ""}

\* the expiry markers the partner issues; 0 is a falsy marker
ExpireTimes == {0, 1}

\* bodies of the token endpoint: success {code: 0, data: {token, expire_time}}
\* and failure {code != 0, msg}
TokenBodies ==
    [code : {0}, msg : {"ok"}, token : Tokens, expire_time : ExpireTimes]
    \cup [code : {1}, msg : {"bad signature"}, token : {None}, expire_time : {NoExpire}]

NoTokenBody == [code |-> 0, msg |-> "", token |-> None, expire_time |-> NoExpire]

\* status 0 stands for a transport failure: no response was received
TokenResponses ==
    [status : {200, 201, 500}, body : TokenBodies]
    \cup [status : {0}, body : {NoTokenBody}]

\* get_token without the test of the cache: every call fetches
CachedTokenIgnored(tok, expire, time) == FALSE

\* get_token with the expiry checked against the clock before the token is reused
CachedTokenFresh(tok, expire, time) ==
    Truthy(tok) /\ TruthyNum(expire) /\ time < expire

\* the test of get_token's first statement; the clock is not consulted
CachedToken(tok, expire, time) ==
    Truthy(tok) /\ TruthyNum(expire)

TokenResult(kind, tok, expire, e) ==
    [kind |-> kind, token |-> tok, expire |-> expire, exc |-> e]

NoTokenResult == TokenResult("none", None, NoExpire, NoExc)

\* get_token that takes every 2xx answer for a success
token_response_2xx(response) ==
    IF response.status = 0
    THEN TokenResult("raise", None, NoExpire,
                     PyError("ConnectError", <<"All connection attempts failed">>))
    ELSE IF response.status \notin 200..299
    THEN TokenResult("raise", None, NoExpire,
                     HTTPException("401", <<"Failed to authenticate with Emeritus API">>))
    ELSE IF response.body.code # 0
    THEN TokenResult("raise", None, NoExpire,
                     HTTPException("401", <<"Emeritus API error: ", response.body.msg>>))
    ELSE TokenResult("return", response.body.token, response.body.expire_time, NoExc)

\* get_token that reports every partner failure with the fixed message
token_response_fixed(response) ==
    IF response.status = 0
    THEN TokenResult("raise", None, NoExpire,
                     PyError("ConnectError", <<"All connection attempts failed">>))
    ELSE IF response.status # 200 \/ response.body.code # 0
    THEN TokenResult("raise", None, NoExpire,
                     HTTPException("401", <<"Failed to authenticate with Emeritus API">>))
    ELSE TokenResult("return", response.body.token, response.body.expire_time, NoExc)

\* get_token from the await of the POST on: the result, and the token and expiry
\* marker it stores when it returns
token_response(response) ==
    IF response.status = 0
    THEN TokenResult("raise", None, NoExpire,
                     PyError("ConnectError", <<"All connection attempts failed">>))
    ELSE IF response.status # 200
    THEN TokenResult("raise", None, NoExpire,
                     HTTPException("401", <<"Failed to authenticate with Emeritus API">>))
    ELSE IF response.body.code # 0
    THEN TokenResult("raise", None, NoExpire,
                     HTTPException("401", <<"Emeritus API error: ", response.body.msg>>))
    ELSE TokenResult("return", response.body.token, response.body.expire_time, NoExc)

\* get_token that stores the token and keeps the expiry marker it had
store_token_only(out, tok, expire) ==
    IF out.kind = "return"
    THEN [token |-> out.token, expire |-> expire]
    ELSE [token |-> tok, expire |-> expire]

\* get_token that forgets the cached token when a fetch fails
store_token_or_clear(out, tok, expire) ==
    IF out.kind = "return"
    THEN [token |-> out.token, expire |-> out.expire]
    ELSE [token |-> None, expire |-> NoExpire]

\* the cache after get_token ended in `out`: the two assignments that follow
\* the checks of the answer, reached only when neither check raised
store_token(out, tok, expire) ==
    IF out.kind = "return"
    THEN [token |-> out.token, expire |-> out.expire]
    ELSE [token |-> tok, expire |-> expire]

NoLast == [ok |-> FALSE, token |-> None, expire |-> NoExpire, fetched |-> FALSE,
           time |-> 0]

NoCallResult == [kind |-> "none", token |-> None, exc |-> NoExc, fetched |-> FALSE]

\* a service calls get_headers, which calls get_token: the cached token is
\* returned, or the POST to the token endpoint is sent
GetToken(c) ==
    /\ cpc[c] = "idle"
    /\ IF CachedToken(token, token_expire_time, now)
       THEN /\ cpc' = [cpc EXCEPT ![c] = "done"]
            /\ cres' = [cres EXCEPT ![c] =
                           [kind |-> "return", token |-> token, exc |-> NoExc,
                            fetched |-> FALSE]]
            /\ last' = [ok |-> TRUE, token |-> token, expire |-> token_expire_time,
                        fetched |-> FALSE, time |-> now]
       ELSE /\ cpc' = [cpc EXCEPT ![c] = "token_wait"]
            /\ UNCHANGED <<cres, last>>
    /\ UNCHANGED <<token, token_expire_time, cgot, verify>>
    /\ UNCHANGED <<api_key, now, toolVars, syncVars>>

\* the token endpoint answers (or the transport fails) and get_token ends
TokenAnswer(c, response) ==
    /\ cpc[c] = "token_wait"
    /\ LET out == token_response(response) IN
         /\ cpc' = [cpc EXCEPT ![c] = "done"]
         /\ cgot' = [cgot EXCEPT ![c] =
                        [status |-> response.status, code |-> response.body.code,
                         msg |-> response.body.msg]]
         /\ cres' = [cres EXCEPT ![c] =
                        [kind |-> out.kind, token |-> out.token, exc |-> out.exc,
                         fetched |-> TRUE]]
         /\ last' = [ok |-> out.kind = "return", token |-> out.token,
                     expire |-> out.expire, fetched |-> TRUE, time |-> now]
         /\ token' = store_token(out, token, token_expire_time).token
         /\ token_expire_time' = store_token(out, token, token_expire_time).expire
    /\ UNCHANGED <<verify, api_key, now, toolVars, syncVars>>

\* the call is over and its slot serves the next one
NextCall(c) ==
    /\ cpc[c] = "done"
    /\ cpc' = [cpc EXCEPT ![c] = "idle"]
    /\ cgot' = [cgot EXCEPT ![c] = NoAnswer]
    /\ cres' = [cres EXCEPT ![c] = NoCallResult]
    /\ UNCHANGED <<verify, api_key, now, cacheVars, toolVars, syncVars>>

NoVerify == [pc |-> "idle", authorization |-> <<>>, kind |-> "none", exc |-> NoExc]

\* answers of the partner's verify endpoint
VerifyResponses ==
    [status : {200, 500},
     body : { [code |-> 0, msg |-> "ok"], [code |-> 1, msg |-> "bad token"] }]
    \cup [status : {0}, body : {[code |-> 0, msg |-> ""]}]

\* verify_token from the await of the GET on
verify_response(response) ==
    IF response.status = 0
    THEN [kind |-> "raise",
          exc |-> PyError("ConnectError", <<"All connection attempts failed">>)]
    ELSE IF response.status # 200
    THEN [kind |-> "raise",
          exc |-> HTTPException("401", <<"Failed to verify token with Emeritus API">>)]
    ELSE IF response.body.code # 0
    THEN [kind |-> "raise",
          exc |-> HTTPException("401", <<"Emeritus API error: ", response.body.msg>>)]
    ELSE [kind |-> "return", exc |-> NoExc]

\* verify_token(tok): the GET to the verify endpoint is sent with the
\* caller's token in the Authorization header
VerifyToken(tok) ==
    /\ verify.pc = "idle"
    /\ verify' = [pc |-> "verify_wait", authorization |-> <<"Bearer ", tok>>,
                  kind |-> "none", exc |-> NoExc]
    /\ UNCHANGED <<cpc, cgot, cres>>
    /\ UNCHANGED <<api_key, now, cacheVars, toolVars, syncVars>>

\* the verify endpoint answers (or the transport fails) and verify_token ends
VerifyAnswer(response) ==
    /\ verify.pc = "verify_wait"
    /\ verify' = [verify EXCEPT !.pc = "done",
                                !.kind = verify_response(response).kind,
                                !.exc = verify_response(response).exc]
    /\ UNCHANGED <<cpc, cgot, cres>>
    /\ UNCHANGED <<api_key, now, cacheVars, toolVars, syncVars>>

\* the verify_token call is over
VerifyReturn ==
    /\ verify.pc = "done"
    /\ verify' = NoVerify
    /\ UNCHANGED <<cpc, cgot, cres>>
    /\ UNCHANGED <<api_key, now, cacheVars, toolVars, syncVars>>

\* time passes
Tick ==
    /\ now < MaxTime
    /\ now' = now + 1
    /\ UNCHANGED <<api_key, cacheVars, authVars, toolVars, syncVars>>

InitAuth ==
    /\ token = None
    /\ token_expire_time = NoExpire
    /\ now = 0
    /\ last = NoLast
    /\ cpc = [c \in Callers |-> "idle"]
    /\ cgot = [c \in Callers |-> NoAnswer]
    /\ cres = [c \in Callers |-> NoCallResult]
    /\ verify = NoVerify

---------------------------------------------------------------------------
(* The synchronous surface: inbound authorization, the routes of api/v5    *)
(* and the services.                                                       *)

NoData == EmptyArgs

EMERITUS_USER_ID == "app1"

\* the routes modelled, one or two of each router
Routes == {"import_leads", "create_user", "get_user_profile", "create_tag",
           "get_order_detail"}

\* the text a service puts before response.text when the status is not 200
FailureText(route) ==
    CASE route = "import_leads" -> "Failed to import leads: "
      [] route = "create_user" -> "Failed to create user: "
      [] route = "get_user_profile" -> "Failed to get user profile: "
      [] route = "create_tag" -> "Failed to create tag group: "
      [] route = "get_order_detail" -> "Failed to get order details: "

\* the keys of data the route reads to build its payload; for get_order_detail
\* three of the required fields of OrderDetail(**data)
ResponseKeys(route) ==
    CASE route = "import_leads" -> {"lead_id"}
      [] route = "create_user" -> {"user_id", "is_user_exists"}
      [] route = "get_user_profile" -> {"user_id", "corp_id", "name"}
      [] route = "create_tag" -> {"tags_group_id", "corp_id", "name"}
      [] route = "get_order_detail" -> {"entity_id", "corp_id", "ctime"}

\* the Authorization header of a request: absent, or a scheme and a credential
Credentials ==
    [scheme : {"bearer"}, credentials : {"k1", "k2"}]
    \cup [scheme : {"basic"}, credentials : {"k1"}]
    \cup [scheme : {"none"}, credentials : {None}]

\* the identification fields of an ImportLeadsRequest, None when not given
NoIdent == [user_id |-> None, area_code |-> None, mobile |-> None]

\* no identification, user_id only, area_code and mobile, mobile only
Idents ==
    { NoIdent,
      [user_id |-> "u1", area_code |-> None, mobile |-> None],
      [user_id |-> None, area_code |-> "86", mobile |-> "13800000000"],
      [user_id |-> None, area_code |-> None, mobile |-> "13800000000"] }

NoSyncRequest == [route |-> "none", scheme |-> "none", credentials |-> None,
                  valid |-> FALSE, ident |-> NoIdent]

HttpResponse(kind, status, success, message, data) ==
    [kind |-> kind, status |-> status, success |-> success, message |-> message,
     data |-> data]

NoResponse == HttpResponse("none", "0", FALSE, <<>>, NoData)

\* the response FastAPI makes of an HTTPException raised outside a route:
\* the status and {"detail": ...}
ErrorResponse(e) == HttpResponse("http_error", e.code, FALSE, Detail(e), NoData)

\* MCPResponse.success_response(data)
success_response(data) == HttpResponse("envelope", "200", TRUE, <<"Success">>, data)

\* MCPResponse.error_response(message)
error_response(message) == HttpResponse("envelope", "200", FALSE, message, NoData)

\* MCPAuthBearer.__call__ that compares with the API key only when one is set
MCPAuthBearer_optional(credential, key) ==
    IF credential.scheme = "none"
    THEN HTTPException("403", <<"Not authenticated">>)
    ELSE IF credential.scheme # "bearer"
    THEN HTTPException("403", <<"Invalid authentication credentials">>)
    ELSE IF key # None /\ credential.credentials # key
    THEN HTTPException("401", <<"Invalid API key">>)
    ELSE NoExc

\* MCPAuthBearer.__call__ without the comparison with the API key
MCPAuthBearer_nokey(credential, key) ==
    IF credential.scheme = "none"
    THEN HTTPException("403", <<"Not authenticated">>)
    ELSE IF credential.scheme # "bearer"
    THEN HTTPException("403", <<"Invalid authentication credentials">>)
    ELSE NoExc

\* MCPAuthBearer.__call__: NoExc when the credential is accepted. HTTPBearer
\* (super().__call__, auto_error) rejects a missing header and a scheme other
\* than bearer itself, so the scheme test of __call__ never fails
MCPAuthBearer(credential, key) ==
    IF credential.scheme = "none"
    THEN HTTPException("403", <<"Not authenticated">>)
    ELSE IF credential.scheme # "bearer"
    THEN HTTPException("403", <<"Invalid authentication credentials">>)
    ELSE IF credential.credentials # key
    THEN HTTPException("401", <<"Invalid API key">>)
    ELSE NoExc

\* get_headers that sends the token without the Bearer scheme
get_headers_bare(tok) ==
    [ content_type |-> "application/json; charset=utf-8",
      authorization |-> <<tok>>,
      x_app_id |-> EMERITUS_USER_ID ]

\* EmeritusAuth.get_headers, given the token get_token returned
get_headers(tok) ==
    [ content_type |-> "application/json; charset=utf-8",
      authorization |-> <<"Bearer ", tok>>,
      x_app_id |-> EMERITUS_USER_ID ]

NoHeaders == [content_type |-> "", authorization |-> <<>>, x_app_id |-> ""]

NoSent == [route |-> "none", headers |-> NoHeaders, payload |-> EmptyArgs]

\* Config.validate_user_identification(values): TRUE when it returns the
\* values, FALSE when it raises ValueError
validate_user_identification(values) ==
    ~ ( /\ ~Truthy(values.user_id)
        /\ ~(Truthy(values.area_code) /\ Truthy(values.mobile)) )

\* a request model that requires the mobile number
RequestModel_mobile(request) ==
    /\ request.valid
    /\ request.route = "import_leads" => Truthy(request.ident.mobile)

\* validation of the request model (ImportLeadsRequest for import_leads):
\* the declared fields are checked, corp_id being the only required one;
\* pydantic runs no function that is merely defined inside class Config
RequestModel(request) == request.valid

\* the body a service sends: the fields of the request model that are not None
ServicePayload(request) ==
    IF request.route = "import_leads"
    THEN [ k \in {"corp_id"} \cup { j \in DOMAIN request.ident : request.ident[j] # None }
             |-> IF k = "corp_id" THEN "c1" ELSE request.ident[k] ]
    ELSE EmptyArgs


\* answers of the partner to a service's request
ServiceBodies(route) ==
    { [code |-> 0, msg |-> "ok", data |-> [k \in ResponseKeys(route) |-> "v"]],
      [code |-> 0, msg |-> "ok", data |-> NoData],
      [code |-> 400, msg |-> "bad corp id", data |-> NoData] }

ServiceResponses(route) ==
    [status : {200, 500}, body : ServiceBodies(route)]
    \cup [status : {0}, body : {[code |-> 0, msg |-> "", data |-> NoData]}]

\* response.text
ResponseText(response) == <<"body:", response.body.msg>>

ServiceResult(kind, data, e) == [kind |-> kind, data |-> data, exc |-> e]

\* a service method without the check of the partner's code
service_response_nocode(route, response) ==
    IF response.status = 0
    THEN ServiceResult("raise", NoData,
                       PyError("ConnectError", <<"All connection attempts failed">>))
    ELSE IF response.status # 200
    THEN ServiceResult("raise", NoData,
                       HTTPException("400", <<FailureText(route)>> \o ResponseText(response)))
    ELSE ServiceResult("return", response.body.data, NoExc)

\* a service method from the await of its request on
service_response(route, response) ==
    IF response.status = 0
    THEN ServiceResult("raise", NoData,
                       PyError("ConnectError", <<"All connection attempts failed">>))
    ELSE IF response.status # 200
    THEN ServiceResult("raise", NoData,
                       HTTPException("400", <<FailureText(route)>> \o ResponseText(response)))
    ELSE IF response.body.code # 0
    THEN ServiceResult("raise", NoData,
                       HTTPException("400", <<"Emeritus API error: ", response.body.msg>>))
    ELSE ServiceResult("return", response.body.data, NoExc)

\* the route builds its response model: data["..."] raises KeyError on a
\* missing key, OrderDetail(**data) raises ValidationError on a missing field
BuildPayload(route, data) ==
    IF ResponseKeys(route) \subseteq DOMAIN data
    THEN ServiceResult("return", [k \in ResponseKeys(route) |-> data[k]], NoExc)
    ELSE LET k == CHOOSE j \in ResponseKeys(route) : j \notin DOMAIN data IN
           IF route = "get_order_detail"
           THEN ServiceResult("raise", NoData,
                              PyError("ValidationError",
                                      <<"validation error for OrderDetail: ", k,
                                        " Field required">>))
           ELSE ServiceResult("raise", NoData, PyError("KeyError", <<"'", k, "'">>))

\* a route without the except clauses: the exception reaches FastAPI
route_except_missing(e) ==
    IF e.type = "HTTPException"
    THEN ErrorResponse(e)
    ELSE HttpResponse("http_error", "500", FALSE, <<"Internal Server Error">>, NoData)

\* a route whose except clauses report a fixed text
route_except_generic(e) == error_response(<<"Internal error">>)

\* a route whose except clauses both report str(e)
route_except_str(e) == error_response(StrOf(e))

\* the except clauses of a route
route_except(e) ==
    IF e.type = "HTTPException"
    THEN error_response(Detail(e))
    ELSE error_response(StrOf(e))

\* a route that wraps data without building the response model inside the try
route_return_unbuilt(route, result) ==
    IF result.kind = "raise"
    THEN route_except(result.exc)
    ELSE success_response(result.data)

\* the try body of a route after the service call ended in `result`
route_return(route, result) ==
    IF result.kind = "raise"
    THEN route_except(result.exc)
    ELSE LET built == BuildPayload(route, result.data) IN
           IF built.kind = "raise"
           THEN route_except(built.exc)
           ELSE success_response(built.data)

\* the exception the try body of a route ended in, NoExc when it returned
route_raised(route, result) ==
    IF result.kind = "raise"
    THEN result.exc
    ELSE BuildPayload(route, result.data).exc

\* FastAPI answers a request whose dependency raised, or whose body or
\* parameters fail validation, without calling the route
rejected_by_framework(request, key) ==
    IF MCPAuthBearer(request, key) # NoExc
    THEN ErrorResponse(MCPAuthBearer(request, key))
    ELSE IF ~RequestModel(request)
    THEN HttpResponse("http_error", "422", FALSE, <<"validation error">>, NoData)
    ELSE NoResponse

\* a request arrives: the auth dependency and the validation run, then the
\* route calls its service, which calls get_headers and sends its request,
\* or get_token sends the POST to the token endpoint
Arrive(r, request) ==
    /\ rpc[r] = "idle"
    /\ rreq' = [rreq EXCEPT ![r] = request]
    /\ IF rejected_by_framework(request, api_key) # NoResponse
       THEN /\ rpc' = [rpc EXCEPT ![r] = "done"]
            /\ rresp' = [rresp EXCEPT ![r] = rejected_by_framework(request, api_key)]
            /\ UNCHANGED rsent
       ELSE IF CachedToken(token, token_expire_time, now)
       THEN /\ rpc' = [rpc EXCEPT ![r] = "remote_wait"]
            /\ rsent' = [rsent EXCEPT ![r] =
                            [route |-> request.route, headers |-> get_headers(token),
                             payload |-> ServicePayload(request)]]
            /\ UNCHANGED rresp
       ELSE /\ rpc' = [rpc EXCEPT ![r] = "token_wait"]
            /\ UNCHANGED <<rsent, rresp>>
    /\ UNCHANGED <<cacheVars, rgot, rexc>>
    /\ UNCHANGED <<api_key, now, authVars, toolVars>>

\* the token endpoint answers the request's get_token: the route reports the
\* failure, or the service sends its request with the new token
RouteTokenAnswer(r, response) ==
    /\ rpc[r] = "token_wait"
    /\ LET out == token_response(response) IN
         /\ token' = store_token(out, token, token_expire_time).token
         /\ token_expire_time' = store_token(out, token, token_expire_time).expire
         /\ IF out.kind = "return"
            THEN /\ rpc' = [rpc EXCEPT ![r] = "remote_wait"]
                 /\ rsent' = [rsent EXCEPT ![r] =
                                 [route |-> rreq[r].route,
                                  headers |-> get_headers(out.token),
                                  payload |-> ServicePayload(rreq[r])]]
                 /\ UNCHANGED <<rexc, rresp>>
            ELSE /\ rpc' = [rpc EXCEPT ![r] = "done"]
                 /\ rexc' = [rexc EXCEPT ![r] = out.exc]
                 /\ rresp' = [rresp EXCEPT ![r] = route_except(out.exc)]
                 /\ UNCHANGED rsent
    /\ UNCHANGED <<rreq, rgot, last>>
    /\ UNCHANGED <<api_key, now, authVars, toolVars>>

\* the partner answers the service's request and the route returns
ServiceAnswer(r) ==
    /\ rpc[r] = "remote_wait"
    /\ \E response \in ServiceResponses(rreq[r].route) :
       LET result == service_response(rreq[r].route, response) IN
         /\ rpc' = [rpc EXCEPT ![r] = "done"]
         /\ rgot' = [rgot EXCEPT ![r] =
                        [status |-> response.status, code |-> response.body.code,
                         msg |-> response.body.msg]]
         /\ rexc' = [rexc EXCEPT ![r] = route_raised(rreq[r].route, result)]
         /\ rresp' = [rresp EXCEPT ![r] = route_return(rreq[r].route, result)]
    /\ UNCHANGED <<rreq, rsent>>
    /\ UNCHANGED <<api_key, now, cacheVars, authVars, toolVars>>

\* the request is over and its slot serves the next one
NextRequest(r) ==
    /\ rpc[r] = "done"
    /\ rpc' = [rpc EXCEPT ![r] = "idle"]
    /\ rreq' = [rreq EXCEPT ![r] = NoSyncRequest]
    /\ rsent' = [rsent EXCEPT ![r] = NoSent]
    /\ rgot' = [rgot EXCEPT ![r] = NoAnswer]
    /\ rexc' = [rexc EXCEPT ![r] = NoExc]
    /\ rresp' = [rresp EXCEPT ![r] = NoResponse]
    /\ UNCHANGED <<api_key, now, cacheVars, authVars, toolVars>>

SyncRequests ==
    { [route |-> rt, scheme |-> cr.scheme, credentials |-> cr.credentials, valid |-> v,
       ident |-> NoIdent] :
        rt \in Routes \ {"import_leads"}, cr \in Credentials, v \in BOOLEAN }
    \cup
    { [route |-> "import_leads", scheme |-> cr.scheme, credentials |-> cr.credentials,
       valid |-> TRUE, ident |-> id] :
        cr \in Credentials, id \in Idents }
    \cup
    { [route |-> "import_leads", scheme |-> cr.scheme, credentials |-> cr.credentials,
       valid |-> FALSE, ident |-> NoIdent] :
        cr \in Credentials }

InitSync ==
    /\ rpc = [r \in Requests |-> "idle"]
    /\ rreq = [r \in Requests |-> NoSyncRequest]
    /\ rsent = [r \in Requests |-> NoSent]
    /\ rgot = [r \in Requests |-> NoAnswer]
    /\ rexc = [r \in Requests |-> NoExc]
    /\ rresp = [r \in Requests |-> NoResponse]

---------------------------------------------------------------------------
(* The specifications.                                                     *)

\* the state after construction; the two specifications below never read
\* the inbound API key
Init == api_key = "k1" /\ InitTool /\ InitAuth /\ InitSync

\* the state after construction, MCP_API_KEY being optional
InitAnyKey == api_key \in {None, "k1"} /\ InitTool /\ InitAuth /\ InitSync

\* the tool-invocation surface
Next ==
    \/ \E i \in Invocations : \E name \in ToolNames : \E arguments \in ArgsFor(name) :
          CallTool(i, name, arguments)
    \/ \E i \in Invocations : \E response \in RemoteResponses : RemoteAnswer(i, response)
    \/ \E i \in Invocations : NextInvocation(i)
    \/ ListTools

Spec == Init /\ [][Next]_vars

\* the Credential Manager under concurrent callers
NextAuth ==
    \/ \E c \in Callers : GetToken(c)
    \/ \E c \in Callers : \E response \in TokenResponses : TokenAnswer(c, response)
    \/ \E c \in Callers : NextCall(c)
    \/ Tick

SpecAuth == Init /\ [][NextAuth]_vars

\* the synchronous surface
NextSync ==
    \/ \E r \in Requests : \E request \in SyncRequests : Arrive(r, request)
    \/ \E r \in Requests : \E response \in TokenResponses : RouteTokenAnswer(r, response)
    \/ \E r \in Requests : ServiceAnswer(r)
    \/ \E r \in Requests : NextRequest(r)

SpecSync == InitAnyKey /\ [][NextSync]_vars

\* The two surfaces are separate programs (python -m emeritus_mcp runs
\* server.py over stdio, main.py is the FastAPI application) and a tool
\* invocation shares no variable with another one, so their steps commute.
\* SpecBoth runs both surfaces and verify_token one call at a time across the
\* surfaces, the requests of the synchronous surface running concurrently.
ToolQuiet == \A i \in Invocations : ipc[i] = "idle"

SyncQuiet == \A r \in Requests : rpc[r] = "idle"

VerifyQuiet == verify.pc = "idle"

ToolStep(i) ==
    /\ SyncQuiet /\ VerifyQuiet
    /\ \A j \in Invocations \ {i} : ipc[j] = "idle"
    /\ \/ \E name \in ToolNames : \E arguments \in ArgsFor(name) :
             CallTool(i, name, arguments)
       \/ \E response \in RemoteResponses : RemoteAnswer(i, response)
       \/ NextInvocation(i)

SyncStep(r) ==
    /\ ToolQuiet /\ VerifyQuiet
    /\ \/ \E request \in SyncRequests : Arrive(r, request)
       \/ \E response \in TokenResponses : RouteTokenAnswer(r, response)
       \/ ServiceAnswer(r)
       \/ NextRequest(r)

VerifyStep ==
    /\ ToolQuiet /\ SyncQuiet
    /\ \/ \E tok \in Tokens : VerifyToken(tok)
       \/ \E response \in VerifyResponses : VerifyAnswer(response)
       \/ VerifyReturn

NextBoth ==
    \/ \E i \in Invocations : ToolStep(i)
    \/ \E r \in Requests : SyncStep(r)
    \/ VerifyStep

SpecBoth == Init /\ [][NextBoth]_vars

\* the tool-invocation surface with the clock running, one invocation at a
\* time: the timestamps of successive requests differ
NextSigned ==
    \/ \E i \in Invocations : ToolStep(i)
    \/ Tick

SpecSigned == Init /\ [][NextSigned]_vars

\* Both surfaces running concurrently, on a few inputs: one catalog name and one name outside the catalog, import-leads
\* requests bearing either key, and answers that succeed or fail in transport.
LiveRemoteResponses ==
    { x \in RemoteResponses : x.status \in {0, 200} /\ x.body.code = 0 }

LiveTokenResponses ==
    { x \in TokenResponses :
        \/ x.status = 0
        \/ x.status = 200 /\ x.body.token \in {"t1", None} /\ x.body.expire_time # 0 }

NextLive ==
    \/ \E i \in Invocations : \E name \in {T_fetch_user_profile, T_fetch_user_xyz} :
          \E arguments \in ArgsFor(name) : CallTool(i, name, arguments)
    \/ \E i \in Invocations : \E response \in LiveRemoteResponses : RemoteAnswer(i, response)
    \/ \E i \in Invocations : NextInvocation(i)
    \/ \E r \in Requests : \E request \in SyncRequests :
          /\ request.route = "import_leads" /\ request.scheme = "bearer"
          /\ request.valid /\ request.ident = NoIdent
          /\ Arrive(r, request)
    \/ \E r \in Requests : \E response \in LiveTokenResponses : RouteTokenAnswer(r, response)
    \/ \E r \in Requests : ServiceAnswer(r)
    \/ \E r \in Requests : NextRequest(r)

\* every remote request that was sent eventually responds, fails or times
\* out: the HTTP clients are built with a timeout (30 s, or httpx's default)
SpecLive ==
    /\ Init /\ [][NextLive]_vars
    /\ \A i \in Invocations :
          WF_vars(\E response \in LiveRemoteResponses : RemoteAnswer(i, response))
    /\ \A r \in Requests :
          /\ WF_vars(\E response \in LiveTokenResponses : RouteTokenAnswer(r, response))
          /\ WF_vars(ServiceAnswer(r))

---------------------------------------------------------------------------
(* Claims about the tool-invocation surface, checked under Spec.           *)

Categories == {"user", "tag", "order", "leads"}

\* C1: every call_tool invocation ends in exactly one outcome, a returned
\* success result or a raised error: an invocation that is over has one
\* outcome, one that is not over has none.
C1_ExactlyOneOutcome ==
    \A i \in Invocations :
        /\ ipc[i] = "done" =>
              /\ Len(ioutcomes[i]) = 1
              /\ ioutcomes[i][1].kind \in {"return", "raise"}
              /\ ioutcomes[i][1].kind = "return" <=> ibody[i].kind = "return"
        /\ ipc[i] # "done" => ioutcomes[i] = <<>>

\* a tool method ran and threw, and the invocation is over
C1_Witness ==
    \E i \in Invocations :
        /\ ipc[i] = "done"
        /\ iroute[i].invoked
        /\ ibody[i].kind = "raise"
        /\ Len(ioutcomes[i]) = 1

\* C2: a name that is not in the catalog fails with the method-not-found
\* classification, never with another error kind.
C2_UnknownToolIsMethodNotFound ==
    \A i \in Invocations :
        (ipc[i] = "done" /\ icall[i].name \notin CatalogNames) =>
            /\ Len(ioutcomes[i]) = 1
            /\ ioutcomes[i][1].kind = "raise"
            /\ ioutcomes[i][1].exc.code = "METHOD_NOT_FOUND"

\* C3: every name list_tools returns is resolved to one of the four handler
\* categories and to a tool method inside it, and is never reported unknown.
C3_CatalogNamesResolved ==
    \A i \in Invocations :
        (ipc[i] # "idle" /\ icall[i].name \in CatalogNames) =>
            /\ iroute[i].category \in Categories
            /\ iroute[i].method = icall[i].name

\* C8: an exception raised by the resolved handler is re-raised by call_tool
\* as an Internal error whose message contains the original error's message.
C8_HandlerErrorsBecomeInternal ==
    \A i \in Invocations :
        (ipc[i] = "done" /\ iroute[i].category \in Categories /\ ibody[i].kind = "raise") =>
            /\ ioutcomes[i] # <<>>
            /\ ioutcomes[i][1].kind = "raise"
            /\ ioutcomes[i][1].exc.type = "McpError"
            /\ ioutcomes[i][1].exc.code = "INTERNAL_ERROR"
            /\ Str(ibody[i].exc) # <<>>
            /\ Contains(Str(ioutcomes[i][1].exc), Str(ibody[i].exc))

\* the remote call of a resolved tool method failed with an HTTP error status
C8_Witness ==
    \E i \in Invocations :
        /\ ipc[i] = "done"
        /\ iroute[i].invoked
        /\ ibody[i].kind = "raise"
        /\ ibody[i].exc.type = "HTTPStatusError"
        /\ ioutcomes[i] # <<>>

\* C11: call_tool("fetch_user_profile", {user_id: u}) invokes the user
\* category's fetch_user_profile handler, once, with user_id equal to u
\* unmodified, and no handler of another category.
C11_FetchUserProfileForwarded ==
    \A i \in Invocations :
        (/\ ipc[i] # "idle"
         /\ icall[i].name = T_fetch_user_profile
         /\ DOMAIN icall[i].arguments = {"user_id"}) =>
            /\ iroute[i] = [category |-> "user", method |-> T_fetch_user_profile,
                            invoked |-> TRUE]
            /\ ireq[i].method = "GET"
            /\ ireq[i].endpoint = "/api/v5/entity/profile/fetch"
            /\ ireq[i].payload = ("user_id" :> icall[i].arguments["user_id"])

\* fetch_user_profile was called with user_id u2 and its request is in flight
C11_Witness ==
    \E i \in Invocations :
        /\ ipc[i] = "awaiting"
        /\ icall[i].name = T_fetch_user_profile
        /\ icall[i].arguments = ("user_id" :> "u2")
        /\ ireq[i].payload = ("user_id" :> "u2")

\* C12: list_tools is pure and idempotent: every call, whatever call_tool
\* invocations run between the calls, returns the same descriptors in the
\* same order and changes no state.
C12_ListToolsPure ==
    [][ Len(listed') > Len(listed) =>
          /\ \A k \in 1..Len(listed') : listed'[k] = listed'[1]
          /\ UNCHANGED <<ipc, icall, iroute, ireq, igot, ibody, ioutcomes>>
          /\ UNCHANGED <<api_key, now, cacheVars, authVars, syncVars>> ]_vars

\* list_tools was called twice, with a call_tool invocation under way
C12_Witness ==
    /\ Len(listed) = 2
    /\ listed[1] = listed[2]
    /\ \E i \in Invocations : ipc[i] = "awaiting"

\* C18: signed headers are built afresh for each remote request of the
\* tool-invocation surface (timestamp and signature of the moment the request
\* is sent) and are never stored (headers exist only in the request that
\* was sent); a tool invocation never calls the token endpoint and neither reads
\* (its headers carry no token) nor writes the cached token.  Checked under
\* SpecSigned.
C18_SignedHeadersFresh ==
    [][ \A i \in Invocations :
          /\ (ipc[i] = "idle" /\ ipc'[i] = "awaiting") =>
                /\ ireq'[i].headers.x_user_id = user_id
                /\ ireq'[i].headers.x_timestamp = now
                /\ ireq'[i].headers.x_signature = Sha256(<<user_id, now, api_secret>>)
                /\ ireq'[i].headers.content_type = "application/json"
                /\ DOMAIN ireq'[i].headers =
                      {"x_user_id", "x_timestamp", "x_signature", "content_type"}
          /\ (ipc[i] = "idle" /\ ipc'[i] # "awaiting") => ireq'[i].headers = NoSigned
          /\ ipc'[i] # ipc[i] =>
                /\ UNCHANGED <<token, token_expire_time, last>>
                /\ UNCHANGED <<cpc, cgot, cres, verify>> ]_vars

\* a request signed at a time other than 0 is in flight
C18_Witness ==
    \E i \in Invocations :
        /\ ipc[i] = "awaiting"
        /\ now > 0
        /\ ireq[i].headers.x_timestamp = now

\* C19: on the tool-invocation surface a partner response that signals
\* failure (HTTP success with a non-zero code) makes the invocation fail with a
\* reported error; it is never returned to the caller as a success payload.
C19_PartnerFailureReported ==
    \A i \in Invocations :
        (ipc[i] = "done" /\ igot[i].status = 200 /\ igot[i].code # 0) =>
            /\ Len(ioutcomes[i]) = 1
            /\ ioutcomes[i][1].kind = "raise"

\* C21: when the resolved handler returns normally, call_tool returns a
\* success result holding exactly one text item, the serialisation of the
\* handler's result unchanged and not validated against the tool's declared
\* shape; a success result is returned in no other case.
C21_SuccessIsSerialisedResult ==
    \A i \in Invocations :
        ipc[i] = "done" =>
            /\ ibody[i].kind = "return" =>
                  /\ ibody[i].result \in RemoteBodies
                  /\ ioutcomes[i] =
                        << [kind |-> "return", exc |-> NoExc,
                            content |-> << [type |-> "text",
                                            text |-> JsonDumps(ibody[i].result)] >>] >>
            /\ (\E k \in 1..Len(ioutcomes[i]) : ioutcomes[i][k].kind = "return") =>
                  /\ ibody[i].kind = "return"
                  /\ iroute[i].invoked
                  /\ iroute[i].method = icall[i].name
                  /\ igot[i].status = 200

\* a handler returned the partner's failure body and it was serialised as is
C21_Witness ==
    \E i \in Invocations :
        /\ ipc[i] = "done"
        /\ ibody[i].kind = "return"
        /\ ibody[i].result = [code |-> 400, msg |-> "bad corp id", data |-> None]
        /\ ioutcomes[i][1].content[1].text = JsonDumps(ibody[i].result)

\* C22: category resolution checks the patterns in the fixed order user,
\* tag, order, leads and takes the first match: a name starting with
\* create_user, fetch_user or update_user goes to the user category even when
\* it also ends in _tag_group or _user_tag, and every name reaches at most one
\* category handler (the one of its first matching pattern, none when no
\* pattern matches).
C22_FirstMatchingCategory ==
    \A i \in Invocations :
        ipc[i] # "idle" =>
            LET n == icall[i].name
                u == \E p \in {T_create_user, P_fetch_user, P_update_user} : StartsWith(n, p)
                t == \/ \E p \in {P_tag_group, P_user_tag} : EndsWith(n, p)
                     \/ n = T_list_user_tags
                o == \E p \in {T_fetch_order, P_list_order} : StartsWith(n, p)
                l == n = T_import_leads
            IN  iroute[i].category =
                    IF u THEN "user"
                    ELSE IF t THEN "tag"
                    ELSE IF o THEN "order"
                    ELSE IF l THEN "leads"
                    ELSE "none"

\* create_user_tag, which starts with create_user and ends in _user_tag, was
\* handed to the user category
C22_Witness ==
    \E i \in Invocations :
        /\ ipc[i] = "done"
        /\ icall[i].name = T_create_user_tag
        /\ EndsWith(icall[i].name, P_user_tag)
        /\ iroute[i].category = "user"

\* C24: create_user invoked through call_tool with neither mobile nor
\* email (absent or empty) fails before any remote request is sent, and the
\* failure reaches the caller as an error, not as a success payload.
C24_CreateUserNeedsContact ==
    \A i \in Invocations :
        (/\ ipc[i] # "idle"
         /\ icall[i].name = T_create_user
         /\ ~Truthy(Param(icall[i].arguments, "mobile"))
         /\ ~Truthy(Param(icall[i].arguments, "email"))) =>
            /\ ipc[i] = "done"
            /\ ireq[i] = NoSend
            /\ igot[i] = NoAnswer
            /\ ibody[i].kind = "raise"
            /\ Len(ioutcomes[i]) = 1
            /\ ioutcomes[i][1].kind = "raise"
            /\ ioutcomes[i][1].exc.type = "McpError"

\* create_user was called with an empty mobile and no email, and its
\* ValueError reached the caller as an error
C24_Witness ==
    \E i \in Invocations :
        /\ ipc[i] = "done"
        /\ icall[i].name = T_create_user
        /\ icall[i].arguments = ("mobile" :> "") @@ ("source" :> "web")
        /\ iroute[i].invoked
        /\ ibody[i].exc.type = "ValueError"
        /\ ioutcomes[i][1].kind = "raise"

\* C26: for any name that is not in the catalog, whether it matches no
\* category pattern or matches one without being a tool of that category,
\* call_tool invokes no tool handler method and sends no remote request.
C26_UnknownNameTouchesNothing ==
    \A i \in Invocations :
        (ipc[i] # "idle" /\ icall[i].name \notin CatalogNames) =>
            /\ ipc[i] = "done"
            /\ iroute[i].method = NoMethod
            /\ ~iroute[i].invoked
            /\ ireq[i] = NoSend
            /\ igot[i] = NoAnswer

\* fetch_user_xyz reached the user category handler, which knew no such tool
C26_Witness ==
    \E i \in Invocations :
        /\ ipc[i] = "done"
        /\ icall[i].name = T_fetch_user_xyz
        /\ iroute[i].category = "user"
        /\ ~iroute[i].invoked
        /\ ireq[i] = NoSend

---------------------------------------------------------------------------
(* Claims about the Credential Manager, checked under SpecAuth.            *)

\* a get_token call of caller c begins in this step
Begins(c) == cpc[c] = "idle" /\ cpc'[c] # "idle"

\* the step ends the call of caller c with the token tok and without a fetch
ReturnsCached(c, tok) ==
    /\ cpc'[c] = "done"
    /\ cres'[c].kind = "return"
    /\ cres'[c].token = tok
    /\ ~cres'[c].fetched

\* C4: while no token is cached, concurrent get_token calls keep at most one
\* token fetch request outstanding at any time (single-flight).
C4_SingleFlight ==
    Cardinality({c \in Callers : cpc[c] = "token_wait"}) <= 1

\* C5: a get_token call that begins right after a call that fetched and
\* succeeded, on any success response, returns the same token and fetches
\* nothing.
C5_SecondCallReusesToken ==
    [][ \A c \in Callers :
          (Begins(c) /\ last.ok /\ last.fetched) => ReturnsCached(c, last.token) ]_vars

\* C5 amended: a get_token call that begins right after a call that fetched
\* and succeeded on a success response whose token and expire_time are both
\* truthy returns the same token and fetches nothing.
C5_SecondCallReusesTruthyToken ==
    [][ \A c \in Callers :
          (Begins(c) /\ last.ok /\ last.fetched
             /\ Truthy(last.token) /\ TruthyNum(last.expire))
          => ReturnsCached(c, last.token) ]_vars

\* one call fetched a token, and the call completed last returned the same
\* token from the cache
C5_Witness ==
    \E c, d \in Callers :
        /\ c # d
        /\ cpc[c] = "done" /\ cres[c].kind = "return" /\ cres[c].fetched
        /\ cpc[d] = "done" /\ cres[d].kind = "return" /\ ~cres[d].fetched
        /\ cres[d].token = cres[c].token
        /\ last.ok /\ ~last.fetched /\ last.token = cres[c].token

\* C6: whenever a token is cached, get_token returns it without a fetch,
\* whatever the stored expiry marker and the time; a fetch is performed only
\* when no token is cached.
C6_CachedTokenAlwaysReused ==
    [][ \A c \in Callers :
          Begins(c) =>
             /\ Truthy(token) => ReturnsCached(c, token)
             /\ cpc'[c] = "token_wait" => ~Truthy(token) ]_vars

\* C6 amended: whenever a token and a truthy expiry marker are cached,
\* get_token returns the token without a fetch, however much time has passed;
\* a fetch is performed only when the token or the expiry marker is unset or
\* falsy.
C6_CachedTokenWithMarkerReused ==
    [][ \A c \in Callers :
          Begins(c) =>
             /\ (Truthy(token) /\ TruthyNum(token_expire_time)) => ReturnsCached(c, token)
             /\ cpc'[c] = "token_wait" =>
                   ~(Truthy(token) /\ TruthyNum(token_expire_time)) ]_vars

\* a call returned the cached token at a time past its expiry marker
C6_Witness ==
    /\ last.ok /\ ~last.fetched
    /\ TruthyNum(last.expire)
    /\ last.time > last.expire
    /\ \E c \in Callers : cpc[c] = "done" /\ ~cres[c].fetched /\ cres[c].token = last.token

Is2xx(status) == status \in 200..299

\* get_token failed with AuthFailure: an HTTPException with status 401
AuthFailure(result) ==
    /\ result.kind = "raise"
    /\ result.exc.type = "HTTPException"
    /\ result.exc.code = "401"

\* the call of c got an HTTP answer from the token endpoint
Answered(c) == cpc[c] = "done" /\ cres[c].fetched /\ cgot[c].status > 0

\* C7: a token fetch whose HTTP result is non-2xx, or whose partner code is
\* non-zero, makes get_token fail with AuthFailure; for a non-zero code (in a
\* 2xx result) the failure message carries the partner's msg.
C7_AuthFailureCarriesMsg ==
    \A c \in Callers :
        Answered(c) =>
            /\ (~Is2xx(cgot[c].status) \/ cgot[c].code # 0) => AuthFailure(cres[c])
            /\ (Is2xx(cgot[c].status) /\ cgot[c].code # 0) =>
                  Contains(Detail(cres[c].exc), <<cgot[c].msg>>)

\* C7 amended: a token fetch whose HTTP status is not 200, or whose partner
\* code is non-zero, makes get_token fail with AuthFailure; for a non-zero
\* code in a status 200 answer the message carries the partner's msg, for any
\* other status it is the fixed text.
C7_AuthFailureCarriesMsgOn200 ==
    \A c \in Callers :
        Answered(c) =>
            /\ (cgot[c].status # 200 \/ cgot[c].code # 0) => AuthFailure(cres[c])
            /\ (cgot[c].status = 200 /\ cgot[c].code # 0) =>
                  Contains(Detail(cres[c].exc), <<cgot[c].msg>>)
            /\ cgot[c].status # 200 =>
                  Detail(cres[c].exc) = <<"Failed to authenticate with Emeritus API">>

\* a status 200 answer with a non-zero code made get_token fail
C7_Witness ==
    \E c \in Callers :
        /\ Answered(c)
        /\ cgot[c].status = 200
        /\ cgot[c].code # 0
        /\ cres[c].kind = "raise"

\* C27: a failed token fetch (non-200 result, non-zero partner code or
\* transport error) makes get_token fail and leaves the cached token and the
\* expiry marker unchanged, so the next get_token call attempts a new fetch
\* (no token and marker being cached) and never returns a value of the failed
\* attempt.
C27_FailedFetchLeavesCache ==
    [][ \A c \in Callers :
          /\ (/\ cpc[c] = "token_wait" /\ cpc'[c] = "done"
              /\ (cgot'[c].status # 200 \/ cgot'[c].code # 0)) =>
                /\ cres'[c].kind = "raise"
                /\ cres'[c].token = None
                /\ UNCHANGED <<token, token_expire_time>>
          /\ (/\ Begins(c) /\ last.fetched /\ ~last.ok
              /\ ~(Truthy(token) /\ TruthyNum(token_expire_time))) =>
                cpc'[c] = "token_wait" ]_vars

\* a fetch answered 201 with a success body failed, nothing was cached, and
\* another call is fetching again
C27_Witness ==
    \E c, d \in Callers :
        /\ cpc[c] = "done" /\ cres[c].fetched /\ cres[c].kind = "raise"
        /\ cgot[c].status = 201 /\ cgot[c].code = 0
        /\ token = None /\ token_expire_time = NoExpire
        /\ ~last.ok /\ last.fetched
        /\ cpc[d] = "token_wait"

\* C28: in every reachable state, including during and after concurrent
\* refreshes, the cached token and the cached expiry marker are either both
\* unset or both taken from the same fetch response (every step that changes
\* one of them stores the token and the expire_time of the one answer that
\* ended a fetch in that step); no caller observes a token paired with the
\* expiry of another response.
C28_TokenAndExpiryFromOneResponse ==
    /\ (token = None /\ token_expire_time = NoExpire)
    /\ [][ /\ (token' = None) <=> (token_expire_time' = NoExpire)
           /\ (token' # token \/ token_expire_time' # token_expire_time) =>
                 /\ last'.fetched /\ last'.ok
                 /\ token' = last'.token
                 /\ token_expire_time' = last'.expire
                 /\ \E c \in Callers :
                       /\ cpc[c] = "token_wait" /\ cpc'[c] = "done"
                       /\ cgot'[c].status = 200 /\ cgot'[c].code = 0
                       /\ cres'[c].token = token' ]_vars

\* two concurrent refreshes ended with different tokens and the cache holds
\* the token and the marker of the later one
C28_Witness ==
    \E c, d \in Callers :
        /\ cpc[c] = "done" /\ cres[c].fetched /\ cres[c].kind = "return"
        /\ cpc[d] = "done" /\ cres[d].fetched /\ cres[d].kind = "return"
        /\ cres[c].token = "t1" /\ cres[d].token = "t2"
        /\ last.fetched /\ last.token = "t2" /\ last.expire = 1
        /\ token = "t2" /\ token_expire_time = 1

---------------------------------------------------------------------------
(* Claims about the synchronous surface, checked under SpecSync.           *)

\* the request passed the auth dependency and the validation: its route ran
ReachedRoute(r) ==
    /\ rpc[r] # "idle"
    /\ rreq[r].scheme = "bearer"
    /\ rreq[r].credentials = api_key
    /\ rreq[r].valid

IsEnvelope(response) == response.kind = "envelope"

\* C9: every request to any route is answered with the {success, message,
\* data} envelope, whichever stage fails, inbound authorization and request
\* validation included.
C9_AlwaysEnvelope ==
    \A r \in Requests : rpc[r] = "done" => IsEnvelope(rresp[r])

\* C9 amended: every request that passes inbound authorization and request
\* validation is answered with the envelope, whichever later stage fails
\* (token acquisition, remote call, response shaping); a request that fails
\* authorization or validation is answered by the framework's error response.
C9_EnvelopeOnceRouteRuns ==
    \A r \in Requests :
        rpc[r] = "done" =>
            IF ReachedRoute(r)
            THEN IsEnvelope(rresp[r])
            ELSE rresp[r].kind = "http_error"

\* a stage inside the route failed and the answer is an envelope
C9_Witness ==
    \E r \in Requests :
        /\ rpc[r] = "done"
        /\ ReachedRoute(r)
        /\ rexc[r] # NoExc
        /\ IsEnvelope(rresp[r])
        /\ ~rresp[r].success

\* C10: in every route an HTTPException of the service call yields
\* success=false with message equal to its detail, any other exception yields
\* success=false with message equal to its string form, and success=true with
\* the structured payload is returned only when the service call and the
\* payload construction both completed without error.
C10_RouteOutcome ==
    \A r \in Requests :
        (rpc[r] = "done" /\ ReachedRoute(r)) =>
            /\ rexc[r].type = "HTTPException" =>
                  /\ ~rresp[r].success
                  /\ rresp[r].message = Detail(rexc[r])
            /\ rexc[r].type \notin {"none", "HTTPException"} =>
                  /\ ~rresp[r].success
                  /\ rresp[r].message = rexc[r].msg
            /\ rresp[r].success <=> rexc[r] = NoExc
            /\ rresp[r].success => DOMAIN rresp[r].data = ResponseKeys(rreq[r].route)
            /\ ~rresp[r].success => rresp[r].data = NoData

\* the service call of a route raised an HTTPException
C10_Witness ==
    \E r \in Requests :
        /\ rpc[r] = "done"
        /\ ReachedRoute(r)
        /\ rexc[r].type = "HTTPException"
        /\ ~rresp[r].success

\* no token fetch and no remote call was made for the request
NothingSent(r) ==
    /\ rpc[r] \notin {"token_wait", "remote_wait"}
    /\ rsent[r] = NoSent
    /\ rgot[r] = NoAnswer
    /\ rexc[r] = NoExc

\* C14: a request reaches its route handler only if its bearer credential
\* equals the configured caller API key; on a mismatch it fails with an
\* unauthorized classification (401) and no token fetch and no remote call is
\* made for it.
C14_OnlyKeyHolderReachesRoute ==
    \A r \in Requests :
        rpc[r] # "idle" =>
            /\ (rreq[r].scheme = "bearer" /\ rreq[r].credentials # api_key) =>
                  /\ rpc[r] = "done"
                  /\ rresp[r].kind = "http_error"
                  /\ rresp[r].status = "401"
                  /\ NothingSent(r)
            /\ (rpc[r] \in {"token_wait", "remote_wait"} \/ IsEnvelope(rresp[r])) =>
                  /\ rreq[r].scheme = "bearer"
                  /\ rreq[r].credentials = api_key

\* a well-formed request bearing the wrong key was answered 401
C14_Witness ==
    \E r \in Requests :
        /\ rpc[r] = "done"
        /\ rreq[r].scheme = "bearer"
        /\ rreq[r].credentials = "k2"
        /\ api_key = "k1"
        /\ rreq[r].valid
        /\ rresp[r].status = "401"

\* an authorized import-leads request with its required fields
LeadsRequest(r) ==
    /\ rpc[r] # "idle"
    /\ rreq[r].route = "import_leads"
    /\ ReachedRoute(r)

\* C15: an import-leads request that has neither user_id nor both area_code
\* and mobile fails validation, and no token fetch and no remote call is made
\* for it.
C15_UnidentifiedLeadRejected ==
    \A r \in Requests :
        (/\ LeadsRequest(r)
         /\ ~validate_user_identification(rreq[r].ident)) =>
            /\ rpc[r] = "done"
            /\ rresp[r].kind = "http_error"
            /\ rresp[r].status = "422"
            /\ NothingSent(r)

\* C16: an import-leads request with only user_id set (no mobile, no
\* area_code) is accepted by validation and proceeds to the remote call: the
\* token is fetched or the import request is sent with user_id, and once the
\* token is there the import request is sent.
C16_UserIdOnlyLeadAccepted ==
    \A r \in Requests :
        (/\ LeadsRequest(r)
         /\ rreq[r].ident = [user_id |-> "u1", area_code |-> None, mobile |-> None]) =>
            /\ rresp[r].kind # "http_error"
            /\ \/ rpc[r] = "token_wait"
               \/ /\ rpc[r] = "done"
                  /\ rsent[r] = NoSent
                  /\ rexc[r].type # "none"
                  /\ rgot[r] = NoAnswer
               \/ /\ rpc[r] \in {"remote_wait", "done"}
                  /\ rsent[r].route = "import_leads"
                  /\ rsent[r].payload = ("corp_id" :> "c1") @@ ("user_id" :> "u1")

\* the import request of a lead with only user_id was sent and answered
C16_Witness ==
    \E r \in Requests :
        /\ LeadsRequest(r)
        /\ rreq[r].ident = [user_id |-> "u1", area_code |-> None, mobile |-> None]
        /\ rpc[r] = "done"
        /\ rsent[r].payload = ("corp_id" :> "c1") @@ ("user_id" :> "u1")
        /\ rgot[r].status = 200
        /\ rresp[r].success

\* C23: a service call of the synchronous surface returns data only when
\* the partner answered HTTP 200 with code 0; any other status or a non-zero
\* code raises a failure carrying the partner's text, so a route never reports
\* success=true for a partner-signalled failure.
C23_PartnerFailureNeverSuccess ==
    \A r \in Requests :
        (rpc[r] = "done" /\ rgot[r].status > 0) =>
            /\ rresp[r].success => (rgot[r].status = 200 /\ rgot[r].code = 0)
            /\ (rgot[r].status # 200 \/ rgot[r].code # 0) =>
                  /\ rexc[r].type = "HTTPException"
                  /\ rexc[r].code = "400"
                  /\ Contains(Detail(rexc[r]), <<rgot[r].msg>>)
                  /\ IsEnvelope(rresp[r])
                  /\ ~rresp[r].success
                  /\ rresp[r].message = Detail(rexc[r])
                  /\ rresp[r].data = NoData

\* the partner answered HTTP 200 with a non-zero code and the route reported
\* the failure with the partner's msg
C23_Witness ==
    \E r \in Requests :
        /\ rpc[r] = "done"
        /\ rgot[r].status = 200
        /\ rgot[r].code = 400
        /\ ~rresp[r].success
        /\ rresp[r].message = <<"Emeritus API error: ", "bad corp id">>

\* the service of request r gets its headers in this step and sends its request
HeadersReturned(r) == rpc[r] # "remote_wait" /\ rpc'[r] = "remote_wait"

\* the token the get_token call of get_headers returned in this step: the
\* cached one when the request arrives, the one just stored after a fetch
TokenReturned(r) == IF rpc[r] = "idle" THEN token ELSE token'

\* get_token failed in this step and get_headers failed with it: the service
\* sent nothing and the route reported the exception
HeadersFailed(r) ==
    (rpc[r] = "token_wait" /\ rpc'[r] = "done") =>
        /\ rexc'[r] # NoExc
        /\ rsent'[r] = NoSent
        /\ ~rresp'[r].success

\* C20: get_headers calls get_token and returns exactly the headers
\* Authorization = "Bearer " followed by the token that call returned,
\* X-APP-ID = the configured identity, and Content-Type = application/json; it
\* fails whenever get_token fails.
C20_TokenHeaders ==
    [][ \A r \in Requests :
          /\ HeadersReturned(r) =>
                rsent'[r].headers =
                    [ content_type |-> "application/json",
                      authorization |-> <<"Bearer ", TokenReturned(r)>>,
                      x_app_id |-> EMERITUS_USER_ID ]
          /\ HeadersFailed(r) ]_vars

\* C20 amended: get_headers calls get_token and returns exactly the headers
\* Authorization = "Bearer " followed by the token that call returned,
\* X-APP-ID = the configured identity, and Content-Type =
\* "application/json; charset=utf-8"; it fails whenever get_token fails.
C20_TokenHeadersCharset ==
    [][ \A r \in Requests :
          /\ HeadersReturned(r) =>
                rsent'[r].headers =
                    [ content_type |-> "application/json; charset=utf-8",
                      authorization |-> <<"Bearer ", TokenReturned(r)>>,
                      x_app_id |-> EMERITUS_USER_ID ]
          /\ HeadersFailed(r) ]_vars

\* a service sent its request with the headers of a freshly fetched token
C20_Witness ==
    \E r \in Requests :
        /\ rpc[r] = "remote_wait"
        /\ token = "t2"
        /\ rsent[r].headers.authorization = <<"Bearer ", "t2">>
        /\ rsent[r].headers.x_app_id = EMERITUS_USER_ID

\* C29: in every service call of the synchronous surface, header
\* acquisition (get_headers, hence get_token) completes before the remote
\* operation request is sent (nothing is sent while the token is awaited, and
\* the request that is sent carries the token get_token returned); when it
\* fails no remote operation request is sent and the route reports
\* success=false with the failure's detail.
C29_HeadersBeforeRequest ==
    [][ \A r \in Requests :
          /\ rpc'[r] = "token_wait" => (rsent'[r] = NoSent /\ rgot'[r] = NoAnswer)
          /\ HeadersReturned(r) =>
                /\ rpc[r] \in {"idle", "token_wait"}
                /\ rsent[r] = NoSent
                /\ rsent'[r].route = rreq'[r].route
                /\ rsent'[r].headers.authorization = <<"Bearer ", TokenReturned(r)>>
          /\ (rpc[r] = "token_wait" /\ rpc'[r] = "done") =>
                /\ rsent'[r] = NoSent
                /\ rgot'[r] = NoAnswer
                /\ rexc'[r] # NoExc
                /\ IsEnvelope(rresp'[r])
                /\ ~rresp'[r].success
                /\ rresp'[r].message = Detail(rexc'[r])
                /\ rresp'[r].data = NoData ]_vars

\* the token endpoint refused the signature: nothing was sent to the
\* operation endpoint and the route reported the partner's msg
C29_Witness ==
    \E r \in Requests :
        /\ rpc[r] = "done"
        /\ ReachedRoute(r)
        /\ rsent[r] = NoSent
        /\ rexc[r] = HTTPException("401", <<"Emeritus API error: ", "bad signature">>)
        /\ ~rresp[r].success
        /\ rresp[r].message = <<"Emeritus API error: ", "bad signature">>

\* C30: when no caller API key is configured (MCP_API_KEY unset), every
\* request to a protected route is rejected, as unauthorized (401) whatever
\* bearer credential it presents; an unset key never grants access: the route
\* does not run, no token is fetched and nothing is sent.
C30_UnsetKeyGrantsNothing ==
    \A r \in Requests :
        (rpc[r] # "idle" /\ api_key = None) =>
            /\ rpc[r] = "done"
            /\ rresp[r].kind = "http_error"
            /\ rresp[r].status \in {"401", "403"}
            /\ rreq[r].scheme = "bearer" =>
                  /\ rresp[r].status = "401"
                  /\ rresp[r].message = <<"Invalid API key">>
            /\ NothingSent(r)

\* with no key configured, a well-formed request bearing k1 was answered 401
C30_Witness ==
    \E r \in Requests :
        /\ api_key = None
        /\ rpc[r] = "done"
        /\ rreq[r].scheme = "bearer"
        /\ rreq[r].credentials = "k1"
        /\ rreq[r].valid
        /\ rresp[r].status = "401"

---------------------------------------------------------------------------
(* Claims about both surfaces, checked under SpecBoth.                     *)

\* the remote request got no answer or an HTTP error status
RequestFailed(got) == got.status = 0 \/ got.status >= 400

FetchSucceeds ==
    \/ \E c \in Callers :
          cpc[c] = "token_wait" /\ cpc'[c] = "done" /\ cres'[c].kind = "return"
    \/ \E r \in Requests :
          rpc[r] = "token_wait" /\ rpc'[r] = "remote_wait"

\* C17: the cached token and its expiry marker are written only by a
\* successful fetch inside get_token: a cache hit of get_headers, verify_token,
\* every service call and every tool invocation leave them unchanged.
C17_CacheWrittenOnlyByFetch ==
    [][ /\ (token' # token \/ token_expire_time' # token_expire_time) => FetchSucceeds
        /\ (verify' # verify \/ toolVars' # toolVars) =>
              UNCHANGED <<token, token_expire_time>>
        /\ \A r \in Requests :
              (rpc[r] \in {"idle", "remote_wait"} /\ rpc'[r] # rpc[r]) =>
                  UNCHANGED <<token, token_expire_time>> ]_vars

\* verify_token was called with another token while a token was cached
C17_Witness ==
    /\ token = "t1"
    /\ verify.pc = "done"
    /\ verify.authorization = <<"Bearer ", "t2">>

=============================================================================
